---- MODULE Spec2Model ----
(***************************************************************************)
(* Model of the vectorize / store / retrieve code of the repository:       *)
(*   src/test_google.py  text_to_vector, cosine_similarity and main (the   *)
(*                       ingestion run: PDF text -> Gemini response ->    *)
(*                       bag-of-words vector -> ChromaDB collection),      *)
(*   src/search.py       main (the query run against ChromaDB).            *)
(*                                                                         *)
(* A text is a sequence of one-character strings.  A float is held in      *)
(* fixed point: the integer n stands for n * 1e-4, so that a product of    *)
(* two floats is in units of 1e-8, the epsilon of cosine_similarity.       *)
(***************************************************************************)
EXTENDS Integers, Sequences, FiniteSets, TLC

VARIABLES
    disk,        \* ChromaDB on disk: path -> collection name -> [exists, records]
    files,       \* the names of the output files the ingestion runs have written
    pc,          \* position of the ingestion run (test_google.main)
    pdf_path,    \* args.pdf_path of the ingestion run
    response,    \* the text returned by ask_gemini
    vector,      \* text_to_vector(response)[0]
    vocab,       \* text_to_vector(response)[1]
    entry_id,    \* the id computed for the entry
    rc,          \* what the latest finished ingestion run returned
    pcs,         \* position of the query run (search.main)
    query,       \* args.query of the query run
    candidates,  \* ids of the records of the collection the latest query ran on
    results,     \* results['ids'][0] of the latest query
    tv_text,     \* text_to_vector called alone: its text,
    tv_vocab,    \*   its vocab argument,
    tv_result,   \*   and what it returned
    cs_v1,       \* cosine_similarity called alone: its v1,
    cs_v2,       \*   its v2,
    cs_result    \*   and what it returned

vars == <<disk, files, pc, pdf_path, response, vector, vocab, entry_id, rc,
          pcs, query, candidates, results,
          tv_text, tv_vocab, tv_result, cs_v1, cs_v2, cs_result>>

ingest_vars == <<disk, files, pc, pdf_path, response, vector, vocab, entry_id, rc>>
search_vars == <<pcs, query, candidates, results>>
tv_vars == <<tv_text, tv_vocab, tv_result>>
cs_vars == <<cs_v1, cs_v2, cs_result>>

\* an optional vocabulary argument: vocab=None, or vocab=v
NoVocab == [given |-> FALSE, value |-> <<>>]
GivenVocab(v) == [given |-> TRUE, value |-> v]

(***************************************************************************)
(* Bounds of the model.                                                    *)
(***************************************************************************)
\* longest text given to text_to_vector when it is called alone
MaxTextLen == 3
\* longest vocabulary given to text_to_vector when it is called alone
MaxVocabLen == 2
\* longest vector given to cosine_similarity
MaxVecLen == 2
\* number of distinct values hash(response) takes
MaxHash == 2
\* records a collection holds before the ingestion runs stop
MaxRecords == 3

(***************************************************************************)
(* Characters and floats.                                                  *)
(***************************************************************************)
\* ord(c) of the characters the model's texts are made of
CodePoint ==
    (" " :> 32) @@ ("." :> 46) @@ ("A" :> 65) @@ ("B" :> 66) @@ ("S" :> 83) @@
    ("_" :> 95) @@ ("a" :> 97) @@ ("b" :> 98) @@ ("c" :> 99) @@ ("d" :> 100) @@
    ("s" :> 115)

Chars == DOMAIN CodePoint

\* str.lower() on one character
LowerChar(c) ==
    IF CodePoint[c] >= 65 /\ CodePoint[c] <= 90
    THEN CHOOSE l \in Chars : CodePoint[l] = CodePoint[c] + 32
    ELSE c

\* str.lower()
lower(text) == [i \in 1..Len(text) |-> LowerChar(text[i])]

\* the regular expression class \w: letters, digits and the underscore
IsWordChar(c) ==
    \/ CodePoint[c] >= 97 /\ CodePoint[c] <= 122
    \/ CodePoint[c] >= 65 /\ CodePoint[c] <= 90
    \/ CodePoint[c] >= 48 /\ CodePoint[c] <= 57
    \/ CodePoint[c] = 95

\* 1.0 in fixed point (units of 1e-4)
One == 100 * 100

\* float(n) of a whole number
float(n) == n * One

Range(s) == {s[i] : i \in 1..Len(s)}

RECURSIVE SeqsUpTo(_, _)
\* the sequences over S of length at most n
SeqsUpTo(S, n) ==
    IF n = 0 THEN {<<>>}
    ELSE LET shorter == SeqsUpTo(S, n - 1)
         IN  shorter \cup {Append(s, x) : s \in shorter, x \in S}

(***************************************************************************)
(* text_to_vector (src/test_google.py:52-62)                               *)
(***************************************************************************)
RECURSIVE FindAllFrom(_, _, _, _)
\* the scan of re.findall(r'\b\w+\b', s) from position i: cur is the run of
\* word characters being read, acc the matches found so far
FindAllFrom(s, i, cur, acc) ==
    IF i > Len(s)
    THEN IF cur = <<>> THEN acc ELSE Append(acc, cur)
    ELSE IF IsWordChar(s[i])
         THEN FindAllFrom(s, i + 1, Append(cur, s[i]), acc)
         ELSE FindAllFrom(s, i + 1, <<>>,
                          IF cur = <<>> THEN acc ELSE Append(acc, cur))

\* the same scan on the text as written: text.lower() forgotten
Tokenize_NoLower(text) == FindAllFrom(text, 1, <<>>, <<>>)

\* tokens = re.findall(r'\b\w+\b', text.lower())
Tokenize(text) == FindAllFrom(lower(text), 1, <<>>, <<>>)

\* Counter(tokens): each distinct token to the number of its occurrences
Counter(tokens) ==
    [t \in Range(tokens) |-> Cardinality({i \in 1..Len(tokens) : tokens[i] = t})]

\* freqs.get(word, 0)
CounterGet(freqs, word) == IF word \in DOMAIN freqs THEN freqs[word] ELSE 0

RECURSIVE StrLess(_, _)
\* a < b on Python strings: by code point, a proper prefix first
StrLess(a, b) ==
    IF b = <<>> THEN FALSE
    ELSE IF a = <<>> THEN TRUE
    ELSE IF CodePoint[a[1]] # CodePoint[b[1]] THEN CodePoint[a[1]] < CodePoint[b[1]]
    ELSE StrLess(Tail(a), Tail(b))

RECURSIVE sorted(_)
\* sorted(keys) of a collection of distinct strings
sorted(keys) ==
    IF keys = {} THEN <<>>
    ELSE LET first == CHOOSE k \in keys : \A o \in keys \ {k} : StrLess(k, o)
         IN  <<first>> \o sorted(keys \ {first})

\* text_to_vector(text, vocab): <<vector, vocab>>
text_to_vector(text, vocab_arg) ==
    LET tokens == Tokenize(text)
        freqs == Counter(tokens)
        voc == IF ~vocab_arg.given THEN sorted(DOMAIN freqs) ELSE vocab_arg.value
    IN  <<[i \in 1..Len(voc) |-> float(CounterGet(freqs, voc[i]))], voc>>

(***************************************************************************)
(* cosine_similarity (src/test_google.py:67-71)                            *)
(***************************************************************************)
\* the 1e-8 of the denominator, in units of 1e-8
EPS == 1

Min(a, b) == IF a <= b THEN a ELSE b

RECURSIVE SumTo(_, _)
\* sum(f[i] for i in 1..n)
SumTo(f, n) == IF n = 0 THEN 0 ELSE f[n] + SumTo(f, n - 1)

\* sum(a*b for a, b in zip(v1, v2)): zip stops at the shorter vector
ZipDot(v1, v2) ==
    LET n == Min(Len(v1), Len(v2))
    IN  SumTo([i \in 1..n |-> v1[i] * v2[i]], n)

\* sum(a*a for a in v)
SumSquares(v) == SumTo([i \in 1..Len(v) |-> v[i] * v[i]], Len(v))

\* the float dot / (sqrt(sq1) * sqrt(sq2) + eps) is kept as its parts, all in
\* units of 1e-8; raised: the division raised ZeroDivisionError, which it
\* does when sqrt(sq1) * sqrt(sq2) + eps is 0
Quotient(dot, sq1, sq2, eps) ==
    [called |-> TRUE,
     raised |-> (eps = 0 /\ (sq1 = 0 \/ sq2 = 0)),
     dot |-> dot, sq1 |-> sq1, sq2 |-> sq2, eps |-> eps]

\* cosine_similarity with the 1e-8 left out of the denominator
cosine_similarity_NoEps(v1, v2) ==
    Quotient(ZipDot(v1, v2), SumSquares(v1), SumSquares(v2), 0)

\* cosine_similarity(v1, v2)
cosine_similarity(v1, v2) ==
    Quotient(ZipDot(v1, v2), SumSquares(v1), SumSquares(v2), EPS)

NotCalled == [called |-> FALSE, raised |-> FALSE, dot |-> 0, sq1 |-> 0, sq2 |-> 0, eps |-> 0]

(***************************************************************************)
(* The states of the parts a specification leaves alone.                   *)
(***************************************************************************)
TvIdle ==
    /\ tv_text = <<>>
    /\ tv_vocab = NoVocab
    /\ tv_result = [called |-> FALSE, vector |-> <<>>, vocab |-> <<>>]

CsIdle ==
    /\ cs_v1 = <<>>
    /\ cs_v2 = <<>>
    /\ cs_result = NotCalled

(***************************************************************************)
(* text_to_vector called alone, on every text and vocabulary of the bounds *)
(***************************************************************************)
\* the characters of the texts: a mix of case, a word character that is no
\* letter, and a separator
TvChars == {"a", "b", "B", "_", " "}

TvTexts == SeqsUpTo(TvChars, MaxTextLen)

\* the words a supplied vocabulary is made of (one never produced by lower())
TvWords == {<<"a">>, <<"b">>, <<"a", "b">>, <<"B">>}

TvVocabs == {NoVocab} \cup {GivenVocab(v) : v \in SeqsUpTo(TvWords, MaxVocabLen)}

CallTextToVector ==
    /\ ~tv_result.called
    /\ LET r == text_to_vector(tv_text, tv_vocab)
       IN  tv_result' = [called |-> TRUE, vector |-> r[1], vocab |-> r[2]]
    /\ UNCHANGED <<tv_text, tv_vocab>>
    /\ UNCHANGED <<ingest_vars, search_vars, cs_vars>>

(***************************************************************************)
(* cosine_similarity called alone, on every pair of vectors of the bounds  *)
(***************************************************************************)
\* the entries of the vectors, in fixed point: 0, 0.0001, 0.0999, 0.1, 1, 2
CsWeights == {0, 1, 999, 1000, One, 2 * One}

CsVectors == SeqsUpTo(CsWeights, MaxVecLen)

CallCosineSimilarity ==
    /\ ~cs_result.called
    /\ cs_result' = cosine_similarity(cs_v1, cs_v2)
    /\ UNCHANGED <<cs_v1, cs_v2>>
    /\ UNCHANGED <<ingest_vars, search_vars, tv_vars>>

(***************************************************************************)
(* ChromaDB as the two programs use it.  A collection holds its records in *)
(* insertion order; a record is [id, document, source, embedding].         *)
(***************************************************************************)
\* chromadb.PersistentClient(path="./chroma_data")
DATA_PATH == "./chroma_data"
\* chromadb.PersistentClient(path="./chroma_db")
DB_PATH == "./chroma_db"
\* the collection the ingestion run writes
RESPONSES == "gemini_responses"
\* the collection the query run reads
MATERIALS == "materials"
\* n_results of collection.query
N_RESULTS == 3

Paths == {DATA_PATH, DB_PATH}
CollectionNames == {RESPONSES, MATERIALS}

NoCollection == [exists |-> FALSE, records |-> <<>>]
EmptyCollection == [exists |-> TRUE, records |-> <<>>]

\* [c.name for c in client.list_collections()]
list_collections(d, path) == {n \in CollectionNames : d[path][n].exists}

\* client.create_collection(name=name)
create_collection(d, path, name) == [d EXCEPT ![path][name] = EmptyCollection]

\* client.get_or_create_collection(name)
get_or_create_collection(d, path, name) ==
    IF name \in list_collections(d, path) THEN d ELSE create_collection(d, path, name)

Ids(col) == {col.records[i].id : i \in 1..Len(col.records)}

\* collection.add refuses an embedding whose length is not the collection's
\* dimension, which the first record added has set
DimensionMismatch(col, rec) ==
    /\ col.records # <<>>
    /\ Len(rec.embedding) # Len(col.records[1].embedding)

\* the collection with the record appended
WithRecord(d, path, name, rec) ==
    [d EXCEPT ![path][name].records = Append(@, rec)]

\* collection.query(query_texts=[q], n_results=n): the ids of the n nearest
\* records.  Chroma embeds q and the documents with its own embedding function,
\* which the program does not choose: any order of any n records is possible
QueryResults(col, n) ==
    {r \in SeqsUpTo(Ids(col), n) :
        /\ Len(r) = Min(n, Len(col.records))
        /\ \A i, j \in 1..Len(r) : i # j => r[i] # r[j]}

(***************************************************************************)
(* The inputs of the two programs.                                         *)
(***************************************************************************)
\* the PDF files given on the command line
Pdfs == {[dir |-> "papers", stem |-> "doc1", suffix |-> ".pdf"],
         [dir |-> "papers", stem |-> "doc2", suffix |-> ".pdf"]}

\* Path(pdf_path).stem
Stem(p) == p.stem

\* the texts Gemini answers with; a, s, d, c stand for the words alloy,
\* strength, density, corrosion
Responses == {<<"a", " ", "s", " ", "d">>,
              <<"d", " ", "c", " ", "s">>,
              <<"S", ".", " ", "s">>}

\* the values hash(response) takes; Python draws the hash seed of a str anew
\* in every process, so the value is not a function of the text across runs
HashVals == 1..MaxHash

\* the query texts given on the command line
Queries == {<<"s", " ", "d">>, <<"c">>}

NoPdf == [dir |-> "", stem |-> "", suffix |-> ""]
NoId == <<"", 0>>

\* f"extracted_{pdf_name}.txt"
OutputFile(p) == <<"extracted_", Stem(p), ".txt">>

(***************************************************************************)
(* The ingestion run: main of src/test_google.py                           *)
(***************************************************************************)
\* main returns code and the process ends: its locals are gone
Return(code) ==
    /\ rc' = code
    /\ pc' = "idle"
    /\ pdf_path' = NoPdf
    /\ response' = <<>>
    /\ vector' = <<>>
    /\ vocab' = <<>>
    /\ entry_id' = NoId

\* the except clause of main: print the error, return 1
Except == Return(1)

\* what an ingestion step leaves alone: the query run and the calls made alone
IngestFrame == UNCHANGED <<search_vars, tv_vars, cs_vars>>

\* the process starts and parses its arguments
Start ==
    /\ pc = "idle"
    /\ Len(disk[DATA_PATH][RESPONSES].records) < MaxRecords
    /\ \E p \in Pdfs : pdf_path' = p
    /\ pc' = "extract"
    /\ UNCHANGED <<disk, files, response, vector, vocab, entry_id, rc>>
    /\ IngestFrame

\* pdf_text = extract_text_from_pdf(args.pdf_path): the text, or an exception
\* (no such file, a PDF that cannot be read)
ExtractText ==
    /\ pc = "extract"
    /\ \/ /\ pc' = "ask"
          /\ UNCHANGED <<pdf_path, response, vector, vocab, entry_id, rc>>
       \/ Except
    /\ UNCHANGED <<disk, files>>
    /\ IngestFrame

\* response = ask_gemini(prompt, pdf_text): a text, or an exception (no API
\* key, the call fails)
AskGemini ==
    /\ pc = "ask"
    /\ \/ /\ \E r \in Responses : response' = r
          /\ pc' = "save"
          /\ UNCHANGED <<pdf_path, vector, vocab, entry_id, rc>>
       \/ Except
    /\ UNCHANGED <<disk, files>>
    /\ IngestFrame

\* the response is written to the output file (kept by its name: no step of
\* either program reads it back), or open() raises
SaveResponse ==
    /\ pc = "save"
    /\ \/ /\ files' = files \cup {OutputFile(pdf_path)}
          /\ pc' = "open"
          /\ UNCHANGED <<pdf_path, response, vector, vocab, entry_id, rc>>
       \/ Except /\ UNCHANGED files
    /\ UNCHANGED disk
    /\ IngestFrame

\* the client is opened and the collection got, or created when the client
\* does not list it
OpenCollection ==
    /\ pc = "open"
    /\ disk' = IF RESPONSES \in list_collections(disk, DATA_PATH)
               THEN disk
               ELSE create_collection(disk, DATA_PATH, RESPONSES)
    /\ pc' = "vectorize"
    /\ UNCHANGED <<files, pdf_path, response, vector, vocab, entry_id, rc>>
    /\ IngestFrame

\* vector, vocab = text_to_vector(response); entry_id = f"{stem}_{hash(response)}"
Vectorize ==
    /\ pc = "vectorize"
    /\ LET r == text_to_vector(response, NoVocab)
       IN  vector' = r[1] /\ vocab' = r[2]
    /\ \E h \in HashVals : entry_id' = <<Stem(pdf_path), h>>
    /\ pc' = "add"
    /\ UNCHANGED <<disk, files, pdf_path, response, rc>>
    /\ IngestFrame

\* collection.add(documents=[response], metadatas=[{"source": pdf_path}],
\*                ids=[entry_id], embeddings=[vector])
AddEntry ==
    /\ pc = "add"
    /\ LET col == disk[DATA_PATH][RESPONSES]
           rec == [id |-> entry_id, document |-> response,
                   source |-> pdf_path, embedding |-> vector]
       IN  \/ \* the embedding does not have the collection's dimension
              /\ DimensionMismatch(col, rec)
              /\ Except
              /\ UNCHANGED disk
           \/ \* the id is in the collection: the record there is kept, and add
              \* either returns (the add is dropped with a warning) ...
              /\ ~DimensionMismatch(col, rec)
              /\ entry_id \in Ids(col)
              /\ pc' = "persist"
              /\ UNCHANGED <<disk, pdf_path, response, vector, vocab, entry_id, rc>>
           \/ \* ... or raises for the duplicate id
              /\ ~DimensionMismatch(col, rec)
              /\ entry_id \in Ids(col)
              /\ Except
              /\ UNCHANGED disk
           \/ \* the record is added
              /\ ~DimensionMismatch(col, rec)
              /\ entry_id \notin Ids(col)
              /\ disk' = WithRecord(disk, DATA_PATH, RESPONSES, rec)
              /\ pc' = "persist"
              /\ UNCHANGED <<pdf_path, response, vector, vocab, entry_id, rc>>
    /\ UNCHANGED files
    /\ IngestFrame

\* chroma_client.persist(), then return 0; when persist raises (a client that
\* has no such method, a write that fails) the except clause returns 1
Persist ==
    /\ pc = "persist"
    /\ \/ Return(0)
       \/ Except
    /\ UNCHANGED <<disk, files>>
    /\ IngestFrame

(***************************************************************************)
(* The query run: main of src/search.py                                    *)
(***************************************************************************)
\* what a query step leaves alone: the ingestion run's files and locals, and
\* the calls made alone
SearchFrame ==
    UNCHANGED <<files, pc, pdf_path, response, vector, vocab, entry_id, rc,
                tv_vars, cs_vars>>

\* client = PersistentClient(path="./chroma_db");
\* collection = client.get_or_create_collection("materials")
SearchOpen ==
    /\ pcs = "idle"
    /\ \E q \in Queries : query' = q
    /\ disk' = get_or_create_collection(disk, DB_PATH, MATERIALS)
    /\ pcs' = "query"
    /\ UNCHANGED <<candidates, results>>
    /\ SearchFrame

\* the query run with the query kept: its text is added to the collection
\* it was run on
SearchQuery_StoresQuery ==
    /\ pcs = "query"
    /\ candidates' = Ids(disk[DB_PATH][MATERIALS])
    /\ results' \in QueryResults(disk[DB_PATH][MATERIALS], N_RESULTS)
    /\ pcs' = "idle"
    /\ disk' = WithRecord(disk, DB_PATH, MATERIALS,
                          [id |-> <<"query", Len(disk[DB_PATH][MATERIALS].records)>>,
                           document |-> query, source |-> NoPdf,
                           embedding |-> text_to_vector(query, NoVocab)[1]])
    /\ UNCHANGED query
    /\ SearchFrame

\* results = collection.query(query_texts=[query], n_results=3), printed; the
\* process ends
SearchQuery ==
    /\ pcs = "query"
    /\ candidates' = Ids(disk[DB_PATH][MATERIALS])
    /\ results' \in QueryResults(disk[DB_PATH][MATERIALS], N_RESULTS)
    /\ pcs' = "idle"
    /\ UNCHANGED <<disk, query>>
    /\ SearchFrame

(***************************************************************************)
(* Specifications                                                          *)
(***************************************************************************)
\* nothing has run: there is no ChromaDB directory and no output file
ProgramsIdle ==
    /\ disk = [p \in Paths |-> [n \in CollectionNames |-> NoCollection]]
    /\ files = {}
    /\ pc = "idle"
    /\ pdf_path = NoPdf
    /\ response = <<>>
    /\ vector = <<>>
    /\ vocab = <<>>
    /\ entry_id = NoId
    /\ rc = 0
    /\ pcs = "idle"
    /\ query = <<>>
    /\ candidates = {}
    /\ results = <<>>

\* the two programs, run any number of times, from an empty disk
Init ==
    /\ ProgramsIdle
    /\ TvIdle
    /\ CsIdle

Next ==
    \/ Start
    \/ ExtractText
    \/ AskGemini
    \/ SaveResponse
    \/ OpenCollection
    \/ Vectorize
    \/ AddEntry
    \/ Persist
    \/ SearchOpen
    \/ SearchQuery

Spec == Init /\ [][Next]_vars

\* text_to_vector on every text and optional vocabulary of the bounds
InitVec ==
    /\ ProgramsIdle
    /\ CsIdle
    /\ tv_text \in TvTexts
    /\ tv_vocab \in TvVocabs
    /\ tv_result = [called |-> FALSE, vector |-> <<>>, vocab |-> <<>>]

NextVec == CallTextToVector

SpecVec == InitVec /\ [][NextVec]_vars

\* cosine_similarity on every pair of vectors of the bounds
InitCos ==
    /\ ProgramsIdle
    /\ TvIdle
    /\ cs_v1 \in CsVectors
    /\ cs_v2 \in CsVectors
    /\ cs_result = NotCalled

NextCos == CallCosineSimilarity

SpecCos == InitCos /\ [][NextCos]_vars

(***************************************************************************)
(* What the claims speak of.                                               *)
(***************************************************************************)
\* the records the ingestion runs have stored, in insertion order
Stored == disk[DATA_PATH][RESPONSES].records

\* the distinct tokens of a text
TokenSet(text) == Range(Tokenize(text))

\* the vocabulary of the collection: the sorted union of the tokens of the
\* texts it holds
CollectionVocabulary ==
    sorted(UNION {TokenSet(Stored[i].document) : i \in 1..Len(Stored)})

\* the reference tokens of a text, by position: <<i, j>> is a maximal run of
\* word characters
RefRuns(text) ==
    {r \in (1..Len(text)) \X (1..Len(text)) :
        /\ r[1] <= r[2]
        /\ \A k \in r[1]..r[2] : IsWordChar(text[k])
        /\ r[1] = 1 \/ ~IsWordChar(text[r[1] - 1])
        /\ r[2] = Len(text) \/ ~IsWordChar(text[r[2] + 1])}

\* the lowercased token of a run
RefToken(text, r) == [k \in 1..(r[2] - r[1] + 1) |-> LowerChar(text[r[1] + k - 1])]

\* the number of occurrences of word among the lowercased tokens of text
RefCount(text, word) == Cardinality({r \in RefRuns(text) : RefToken(text, r) = word})

AllZero(v) == \A i \in 1..Len(v) : v[i] = 0

\* the tolerance 1e-6, inverted
TolInv == 1000 * 1000

\* a score is what cosine_similarity returns when it returns
IsScore(r) == r.called /\ ~r.raised

\* the score is exactly 0: the numerator is 0 and the denominator is not
IsZeroScore(r) == IsScore(r) /\ r.dot = 0

\* the score of a vector against itself is within 1e-6 of 1.0; there
\* sqrt(sq1) * sqrt(sq2) is sq1, and |1 - dot / den| <= 1e-6 is
\* |den - dot| * 1e6 <= den
SelfScoreIsOne(r) ==
    LET den == r.sq1 + r.eps
        diff == IF den >= r.dot THEN den - r.dot ELSE r.dot - den
    IN  IsScore(r) /\ r.sq1 = r.sq2 /\ diff * TolInv <= den

(***************************************************************************)
(* The claims.                                                             *)
(***************************************************************************)

\* C1: after any sequence of ingestions every stored vector has the length of
\* the collection's vocabulary, no two stored vectors differ in length, and a
\* record holds 0.0 at every index of a word that its own text does not have
\* (the words that were added after it was stored).
C1_DimensionalConsistency ==
    LET V == CollectionVocabulary
    IN  /\ \A i \in 1..Len(Stored) : Len(Stored[i].embedding) = Len(V)
        /\ \A i, j \in 1..Len(Stored) :
              Len(Stored[i].embedding) = Len(Stored[j].embedding)
        /\ \A i \in 1..Len(Stored) : \A k \in 1..Len(V) :
              (k <= Len(Stored[i].embedding) /\ V[k] \notin TokenSet(Stored[i].document))
                  => Stored[i].embedding[k] = 0

\* C2: no two records share an id; when add has returned, the record under the
\* entry's id holds the text and the vector of this ingestion (an id already
\* present is replaced); and a document ingested again leaves the number of
\* records unchanged: the store holds one record for each document.
C2_UpsertSemantics ==
    /\ \A i, j \in 1..Len(Stored) : i # j => Stored[i].id # Stored[j].id
    /\ pc = "persist" =>
          \E i \in 1..Len(Stored) :
              /\ Stored[i].id = entry_id
              /\ Stored[i].document = response
              /\ Stored[i].embedding = vector
    /\ \A i, j \in 1..Len(Stored) :
          i # j => Stem(Stored[i].source) # Stem(Stored[j].source)

\* C3: the vocabulary an ingestion vectorizes its text with is the sorted
\* union of the collection's vocabulary before it and the distinct tokens of
\* the text (so it has every word the vocabulary had before).
C3_VocabularyGrowth ==
    pc = "add" =>
        vocab = sorted(Range(CollectionVocabulary) \cup TokenSet(response))

\* C4: text_to_vector matches the reference vectorizer.  With a vocabulary V
\* it returns V unchanged and a vector of len(V) entries, entry i the number of
\* occurrences of V[i] among the lowercased tokens of the text; with none it
\* returns as vocabulary the sorted list, without repeats, of the distinct
\* tokens of the text, and the vector of their counts.
C4_TextToVectorMatchesReference ==
    tv_result.called =>
        LET V == tv_result.vocab
            distinct == {RefToken(tv_text, r) : r \in RefRuns(tv_text)}
        IN  /\ tv_vocab.given => V = tv_vocab.value
            /\ ~tv_vocab.given =>
                  /\ Range(V) = distinct
                  /\ \A i \in 1..(Len(V) - 1) : StrLess(V[i], V[i + 1])
            /\ Len(tv_result.vector) = Len(V)
            /\ \A i \in 1..Len(V) :
                  tv_result.vector[i] = float(RefCount(tv_text, V[i]))

\* C4's case: a text with a capital and a repeated token, vectorized on a
\* vocabulary that has a word the text lacks
C4_Witness ==
    /\ tv_result.called
    /\ tv_text = <<"B", " ", "b">>
    /\ tv_vocab = GivenVocab(<< <<"b">>, <<"a">> >>)
    /\ tv_result.vector = <<2 * One, 0>>

\* C4's other case: no vocabulary, two distinct tokens out of order
C4_WitnessNoVocab ==
    /\ tv_result.called
    /\ tv_text = <<"b", " ", "_">>
    /\ ~tv_vocab.given
    /\ tv_result.vocab = << <<"_">>, <<"b">> >>

\* C5: every record an ingestion has stored is among the candidates of every
\* later query (one that runs when no ingestion is under way).
C5_IngestedIsCandidate ==
    [][(pc = "idle" /\ pcs = "query" /\ pcs' = "idle") =>
          \A i \in 1..Len(Stored) : Stored[i].id \in candidates']_vars

\* C6: a query returns the candidates in ranked order, at most k of them and
\* all of them when fewer than k exist; "strength density" over doc1 and doc2
\* returns doc1 then doc2.
C6_RankedResults ==
    [][(pc = "idle" /\ pcs = "query" /\ pcs' = "idle") =>
          /\ Len(results') = Min(N_RESULTS, Len(Stored))
          /\ \A i \in 1..Len(results') : \E j \in 1..Len(Stored) : Stored[j].id = results'[i]
          /\ (/\ Len(Stored) = 2
              /\ Stored[1].document = <<"a", " ", "s", " ", "d">>
              /\ Stored[2].document = <<"d", " ", "c", " ", "s">>
              /\ query = <<"s", " ", "d">>)
                 => results' = <<Stored[1].id, Stored[2].id>>]_vars

\* C7 as claimed: a step of the query run leaves the durable store as it was,
\* also when the collection it queries did not exist.
C7_NoPersistedSideEffects ==
    [][pcs' # pcs => (disk' = disk /\ files' = files)]_vars

\* C7 as amended: a step of the query run changes no record and no
\* collection that exists; all it may persist is the collection "materials"
\* of ./chroma_db, created empty when it did not exist.
C7_QueryOnlyCreatesItsCollection ==
    [][pcs' # pcs =>
          /\ files' = files
          /\ \A p \in Paths : \A n \in CollectionNames :
                \/ disk'[p][n] = disk[p][n]
                \/ /\ p = "./chroma_db"
                   /\ n = "materials"
                   /\ ~disk[p][n].exists
                   /\ disk'[p][n] = EmptyCollection]_vars

\* C7's case: a query has run to its end on a disk that had no "materials"
\* collection, while the ingestion store holds a record
C7_Witness ==
    /\ pcs = "idle"
    /\ query # <<>>
    /\ disk[DB_PATH][MATERIALS] = EmptyCollection
    /\ Len(Stored) > 0

\* C8: a failure while the text is produced comes before any write to the
\* store; a run that returns 1 leaves no record of its document in the store;
\* a run that returns 0 has stored exactly one record for it.
C8_AllOrNothing ==
    [][/\ pc \in {"extract", "ask", "save"} => disk'[DATA_PATH] = disk[DATA_PATH]
       /\ (pc # "idle" /\ pc' = "idle" /\ rc' = 1) =>
             \A i \in 1..Len(Stored') :
                 ~(Stored'[i].id = entry_id /\ Stored'[i].source = pdf_path)
       /\ (pc # "idle" /\ pc' = "idle" /\ rc' = 0) =>
             Cardinality({i \in 1..Len(Stored') :
                             Stored'[i].id = entry_id /\ Stored'[i].document = response}) = 1
      ]_vars

\* C9: a pair of vectors of different lengths is never given a similarity
\* score (the candidate is skipped).
C9_MismatchIsNotScored ==
    (cs_result.called /\ Len(cs_v1) # Len(cs_v2)) => ~IsScore(cs_result)

\* cosine_similarity never fails with a division by zero
NeverDividesByZero == cs_result.called => ~cs_result.raised

\* equal lengths and an all-zero vector (two empty vectors too): exactly 0
ZeroVectorScoresZero ==
    (cs_result.called /\ Len(cs_v1) = Len(cs_v2) /\ (AllZero(cs_v1) \/ AllZero(cs_v2)))
        => IsZeroScore(cs_result)

C10_WitnessZero ==
    /\ cs_result.called
    /\ cs_v1 = <<0, 0>>
    /\ cs_v2 = <<One, 0>>
    /\ IsZeroScore(cs_result)

====
